---- MODULE Spec2Model ----
(***************************************************************************)
(* Device session and transport bridge of the AstroBox-NG AppWasm module:  *)
(* the session registry (SESSIONS), the device set of the entity runtime,  *)
(* miwear_connect / miwear_disconnect / miwear_get_connected_devices, the  *)
(* per-session inbound and outbound tasks of XiaomiSpp::start and the      *)
(* remote-disconnect task handle_remote_disconnect.                        *)
(*                                                                         *)
(* The program is single-threaded and cooperative (wasm, spawn_local): a   *)
(* task runs from one await to the next without interruption, so every     *)
(* action below is the code between two suspension points.                 *)
(***************************************************************************)
EXTENDS Integers, Sequences, FiniteSets, TLC

\* ------------------------------------------------------------------ bounds
\* number of miwear_connect calls of one run (each creates at most one XiaomiSpp)
NumConnect == 2
\* number of miwear_disconnect calls of one run
NumDisconnect == 2
\* number of miwear_connect and miwear_disconnect calls of one run, together
MaxCalls == 3
\* number of callbacks the host registers with register_event_sink
NumSinks == 2
\* number of miwear_get_connected_devices calls of one run
MaxList == 1
\* number of data / undefined read results one transport delivers
MaxReads == 3
\* number of buffers the dispatcher submits through one session's write closure
MaxSend == 2
\* progress events the install system emits for one install
MaxEvents == 3
\* subsystem accessor calls of a run
MaxAccess == 1
\* SERVICE_UUID_CANDIDATES.len() and CHARACTERISTIC_UUID_CANDIDATES.len()
NumServices == 3
NumCharacteristics == 4

Calls == 1 .. NumConnect
DCalls == 1 .. NumDisconnect
NoSession == 0
\* the callbacks the host registers, numbered in the order of their registration
Sinks == 1 .. NumSinks
NoSink == 0

\* ------------------------------------------------------------------ values
\* an address without XiaomiDevice entity (find_entity_by_id_mut = None); the
\* entity of a session holds that session's write closure
NoDevice == [name |-> "", sess |-> NoSession]
\* what SerialPort.getInfo() reports: serialNumber ("" when absent),
\* usbVendorId / usbProductId (-1 when absent)
InfoSerial == [serialNumber |-> "SN123", usbVendorId |-> 6790, usbProductId |-> 29987]
InfoUsb == [serialNumber |-> "", usbVendorId |-> 6790, usbProductId |-> 29987]
InfoBare == [serialNumber |-> "", usbVendorId |-> -1, usbProductId |-> -1]
ProbeInfos == {InfoSerial, InfoUsb, InfoBare}
\* js_sys::Date::now() at the time of the probe
ProbeTime == 1700
NameArgs == {"", "Watch"}
HintArgs == {"", " ", "serial:SN123"}
\* byte buffers read from / written to the transport
Chunks == {<<1>>, <<2, 3>>}

HexDigits == <<"0", "1", "2", "3", "4", "5", "6", "7", "8", "9", "a", "b", "c", "d", "e", "f">>

\* format!("{:04x}") of a u16
Hex04(n) ==
  HexDigits[((n \div 4096) % 16) + 1] \o HexDigits[((n \div 256) % 16) + 1]
    \o HexDigits[((n \div 16) % 16) + 1] \o HexDigits[(n % 16) + 1]

\* XiaomiSpp::new, device_addr
DeviceAddr(info) ==
  IF info.serialNumber # "" THEN "serial:" \o info.serialNumber
  ELSE IF info.usbVendorId >= 0 /\ info.usbProductId >= 0
       THEN "usb:" \o Hex04(info.usbVendorId) \o ":" \o Hex04(info.usbProductId)
       ELSE "serial-port-" \o ToString(ProbeTime)

\* XiaomiSpp::new, device_label ("" stands for None: a label is never empty)
DeviceLabel(info) ==
  IF info.serialNumber # "" THEN info.serialNumber
  ELSE IF info.usbVendorId >= 0 /\ info.usbProductId >= 0
       THEN "USB " \o Hex04(info.usbVendorId) \o ":" \o Hex04(info.usbProductId)
       ELSE ""

\* str::trim().is_empty() on the hints of HintArgs
IsBlank(s) == s \in {"", " "}

\* XiaomiSpp::start, the name handed to the handshake
FinalName(name, label) ==
  IF name = "" THEN (IF label # "" THEN label ELSE "Bluetooth Device") ELSE name

\* XiaomiSpp::start, final_addr
FinalAddr(hint, device_addr) == IF IsBlank(hint) THEN device_addr ELSE hint

Addrs == {FinalAddr(h, DeviceAddr(i)) : h \in HintArgs, i \in ProbeInfos}

\* ------------------------------------------------------------------ state
VARIABLES
  EVENT_SINK, \* the registered notification callback (NoSink when None)
  SESSIONS,   \* registry: address -> session (NoSession when absent)
  entities,   \* device set of the entity runtime: address -> device (NoDevice when absent)
  spp,        \* the XiaomiSpp of each connect call and where it lives
  ops,        \* per session, the transport operations issued so far, in order
  conn,       \* position and locals of each miwear_connect call
  disc,       \* position and locals of each miwear_disconnect call
  inbound,    \* position of each session's inbound task
  outbound,   \* position of each session's outbound task
  hrd,        \* the handle_remote_disconnect task each inbound task spawns: spawned, done
  chan,       \* per session, the outbound queue and what went through it
  packets,    \* per session, the on_packet calls made so far
  reads,      \* per session, the results the transport reads returned so far
  events,     \* the emit_event calls made so far
  listed,     \* the last answer of miwear_get_connected_devices
  install,    \* the miwear_install call, its progress channel and forwarding task
  access,     \* the last subsystem accessor call and its result
  pair        \* the ensure_bluetooth_pairing call: position, browser, result

vars == <<EVENT_SINK, SESSIONS, entities, spp, ops, conn, disc, inbound, outbound, hrd, chan,
          packets, reads, events, listed, install, access, pair>>

NoSpp ==
  [owner |-> "none", port |-> "none", reader |-> "none", writer |-> "none",
   device_addr |-> "", device_label |-> "", runtime |-> FALSE, name |-> "", addr |-> ""]

\* what a miwear_connect call returned: Ok(info) or Err(error)
NoResult == [status |-> "none", name |-> "", addr |-> "", error |-> ""]

NotListed == [asked |-> 0, devices |-> {}, registered |-> {}]

\* miwear_install not called: no channel, no forwarding task, nothing emitted
NoInstall ==
  [pc |-> "idle", addr |-> "", res |-> "", cb |-> FALSE, rx |-> "none", tx |-> FALSE,
   notifier |-> FALSE, sys |-> "none", fwd |-> "none", queue |-> <<>>, emitted |-> <<>>,
   early |-> 0, delivered |-> <<>>, ret |-> "", mark |-> 0]

\* no subsystem accessor called
NoAccess == [asked |-> 0, addr |-> "", ret |-> ""]

\* ensure_bluetooth_pairing not called
NoPairing ==
  [pc |-> "idle", ret |-> "", at |-> "", connected |-> FALSE, connected_here |-> FALSE, svc |-> 0,
   chr |-> 0, log |-> <<>>]

\* the module is loaded: no session, no device, no call made
Loaded ==
  /\ SESSIONS = [a \in Addrs |-> NoSession]
  /\ entities = [a \in Addrs |-> NoDevice]
  /\ spp = [c \in Calls |-> NoSpp]
  /\ ops = [c \in Calls |-> <<>>]
  /\ conn = [c \in Calls |-> [pc |-> "idle", drained |-> <<>>, cur |-> 0, ret |-> NoResult,
                                  mark |-> 0, ovc |-> FALSE, ovd |-> FALSE]]
  /\ disc = [d \in DCalls |-> [pc |-> "idle", addr |-> "", removed |-> NoSession,
                                   ovc |-> FALSE, ovd |-> FALSE]]
  /\ inbound = [c \in Calls |-> "none"]
  /\ outbound = [c \in Calls |-> "none"]
  /\ hrd = [c \in Calls |-> "none"]
  /\ chan = [c \in Calls |-> [queue |-> <<>>, submitted |-> <<>>, inflight |-> <<>>,
                                written |-> <<>>, answers |-> <<>>]]
  /\ packets = [c \in Calls |-> <<>>]
  /\ reads = [c \in Calls |-> <<>>]
  /\ events = <<>>
  /\ listed = NotListed
  /\ install = NoInstall
  /\ access = NoAccess
  /\ pair = NoPairing

\* the state after construction: no sink is registered
Init == EVENT_SINK = NoSink /\ Loaded

\* the state after the first register_event_sink call, made before any other call
InitSink == EVENT_SINK = 1 /\ Loaded

\* ------------------------------------------------------------------ helpers
\* the orders in which HashMap::drain can yield the entries of S
Orders(S) ==
  {q \in [1 .. Cardinality(S) -> S] : \A i, j \in 1 .. Cardinality(S) : q[i] = q[j] => i = j}

\* the miwear_connect and miwear_disconnect calls made so far
CallsMade ==
  Cardinality({c \in Calls : conn[c].pc # "idle"}) + Cardinality({d \in DCalls : disc[d].pc # "idle"})

Registered == {a \in Addrs : SESSIONS[a] # NoSession}

Count(log, x) == Cardinality({i \in 1 .. Len(log) : log[i] = x})

\* SerialPort.close() of the Web Serial API: it cancels the readable and aborts
\* the writable stream, and is rejected (the port stays open) while one of them
\* is still locked by a reader or writer
PortAfterClose(x) == IF x.reader = "locked" \/ x.writer = "open" THEN x.port ELSE "closed"

\* XiaomiSpp::disconnect up to its first await: writer.take() and writer.close()
disconnect_begin(x) == [x EXCEPT !.writer = "closed", !.owner = "teardown"]

\* XiaomiSpp::disconnect between its awaits: reader.take(), release_lock(), port.close()
disconnect_mid(x) ==
  LET y == [x EXCEPT !.reader = "released"] IN [y EXCEPT !.port = PortAfterClose(y)]

\* XiaomiSpp::disconnect after its last await: runtime.take(), self is dropped
disconnect_end(x) == [x EXCEPT !.runtime = FALSE, !.owner = "dropped"]

\* an XiaomiSpp dropped without disconnect(): its fields are dropped, the
\* browser handles are not closed
dropped(x) == [x EXCEPT !.runtime = FALSE, !.owner = "dropped"]

\* remove_device_and_get_info: the answer
device_info(addr) ==
  IF entities[addr] # NoDevice THEN [name |-> entities[addr].name, addr |-> addr]
  ELSE [name |-> "", addr |-> addr]

\* an emit_event that keeps calling the first sink that was registered
emit_event_first_sink(event, payload, by) ==
  events' = Append(events, [event |-> event, name |-> payload.name, addr |-> payload.addr,
                            by |-> by, sink |-> IF EVENT_SINK = NoSink THEN NoSink ELSE 1])

\* emit_event: the call, and the sink that receives it (NoSink: it is dropped)
emit_event(event, payload, by) ==
  events' = Append(events, [event |-> event, name |-> payload.name, addr |-> payload.addr,
                            by |-> by, sink |-> EVENT_SINK])

\* register_event_sink
RegisterEventSink(f) ==
  /\ f = EVENT_SINK + 1
  /\ EVENT_SINK' = f
  /\ UNCHANGED <<SESSIONS, entities, spp, ops, conn, disc, inbound, outbound, hrd, chan,
                 packets, reads, events, listed, install, access, pair>>

\* notify_disconnected: the device is looked up and removed, and
\* "device-disconnected" is emitted with what was found. with_rt_mut runs its
\* closures on the one thread in the order of the calls, so the closure is run
\* where it is called
notify_disconnected(addr, by) ==
  /\ entities' = [entities EXCEPT ![addr] = NoDevice]
  /\ emit_event("device-disconnected", device_info(addr), by)

\* a write closure that outlives the device entity: a sender of the outbound
\* queue stays with the call that made the session
ClosureAliveLeaked(c) ==
  \/ conn[c].pc \in {"handshake", "ok"}
  \/ spp[c].addr \in Addrs /\ entities[spp[c].addr].sess = c

\* the write closure of a session can be called: the handshake runs, or the
\* device entity that holds it is in the device set
ClosureAlive(c) ==
  \/ conn[c].pc = "handshake"
  \/ spp[c].addr \in Addrs /\ entities[spp[c].addr].sess = c

\* ------------------------------------------------------------------ miwear_connect
\* a call is in flight from its first step to its return
ConnFlying(c) == conn[c].pc \notin {"idle", "ok", "err"}
DiscFlying(d) == disc[d].pc \notin {"idle", "done"}

\* the calls in flight learn that a miwear_connect call overlaps them
MeetConnect(c) ==
  [x \in Calls |-> IF x # c /\ ConnFlying(x) THEN [conn[x] EXCEPT !.ovc = TRUE] ELSE conn[x]]
MeetConnectD ==
  [d \in DCalls |-> IF DiscFlying(d) THEN [disc[d] EXCEPT !.ovc = TRUE] ELSE disc[d]]

\* the calls in flight learn that a miwear_disconnect call overlaps them
MeetDisconnect(d) ==
  [x \in DCalls |-> IF x # d /\ DiscFlying(x) THEN [disc[x] EXCEPT !.ovd = TRUE] ELSE disc[x]]
MeetDisconnectC ==
  [c \in Calls |-> IF ConnFlying(c) THEN [conn[c] EXCEPT !.ovd = TRUE] ELSE conn[c]]

\* miwear_connect up to its first await (the calls of a run are numbered in the
\* order in which they are made): disconnect_all_sessions drains the registry
\* and starts the teardown of the first drained session, or, with nothing to
\* tear down, XiaomiSpp::new requests a port
ConnectBegin(c) ==
  /\ conn[c].pc = "idle"
  /\ c > 1 => conn[c - 1].pc # "idle"
  /\ CallsMade < MaxCalls
  /\ \E q \in Orders(Registered) :
       /\ SESSIONS' = [a \in Addrs |-> NoSession]
       /\ conn' = [MeetConnect(c) EXCEPT
                     ![c] = [conn[c] EXCEPT
                               !.pc = IF q = <<>> THEN "probe" ELSE "td_writer",
                               !.drained = [i \in 1 .. Len(q) |->
                                              [addr |-> q[i], sess |-> SESSIONS[q[i]]]],
                               !.cur = 1,
                               !.ovc = \E x \in Calls \ {c} : ConnFlying(x),
                               !.ovd = \E d \in DCalls : DiscFlying(d)]]
       /\ IF q = <<>>
          THEN UNCHANGED <<spp, ops>>
          ELSE /\ spp' = [s \in Calls |->
                            IF s = SESSIONS[q[1]] THEN disconnect_begin(spp[s])
                            ELSE IF \E a \in Registered : SESSIONS[a] = s
                                 THEN [spp[s] EXCEPT !.owner = "teardown"]
                                 ELSE spp[s]]
               /\ ops' = [ops EXCEPT ![SESSIONS[q[1]]] = Append(@, "writer.close")]
  /\ disc' = MeetConnectD
  /\ UNCHANGED <<EVENT_SINK, entities, inbound, outbound, hrd, chan, packets, reads, events,
                 listed, install, access, pair>>

\* the drained session a miwear_connect call is tearing down
Current(c) == conn[c].drained[conn[c].cur]

\* disconnect_all_sessions: writer.close() of the session being torn down resolved
ConnectTdWriterClosed(c) ==
  /\ conn[c].pc = "td_writer"
  /\ spp' = [spp EXCEPT ![Current(c).sess] = disconnect_mid(@)]
  /\ ops' = [ops EXCEPT ![Current(c).sess] = @ \o <<"reader.release", "port.close">>]
  /\ conn' = [conn EXCEPT ![c].pc = "td_port"]
  /\ UNCHANGED <<EVENT_SINK, SESSIONS, entities, disc, inbound, outbound, hrd, chan, packets,
                 reads, events, listed, install, access, pair>>

\* disconnect_all_sessions: port.close() resolved, disconnect() returns and
\* notify_disconnected runs; then the next drained session starts its teardown,
\* or, after the last one, XiaomiSpp::new requests a port
ConnectTdPortClosed(c) ==
  /\ conn[c].pc = "td_port"
  /\ notify_disconnected(Current(c).addr, <<"connect", c>>)
  /\ IF conn[c].cur = Len(conn[c].drained)
     THEN /\ conn' = [conn EXCEPT ![c].pc = "probe"]
          /\ spp' = [spp EXCEPT ![Current(c).sess] = disconnect_end(@)]
          /\ ops' = [ops EXCEPT ![Current(c).sess] = Append(@, "runtime.drop")]
     ELSE LET next == conn[c].drained[conn[c].cur + 1].sess IN
          /\ conn' = [conn EXCEPT ![c].pc = "td_writer", ![c].cur = @ + 1]
          /\ spp' = [spp EXCEPT ![Current(c).sess] = disconnect_end(@),
                                ![next] = disconnect_begin(@)]
          /\ ops' = [ops EXCEPT ![Current(c).sess] = Append(@, "runtime.drop"),
                                ![next] = Append(@, "writer.close")]
  /\ UNCHANGED <<EVENT_SINK, SESSIONS, disc, inbound, outbound, hrd, chan, packets, reads,
                 listed, install, access, pair>>

\* XiaomiSpp::new resolved (requestPort and open), then XiaomiSpp::start up to
\* the await of the handshake: reader and writer are taken, both tasks are
\* spawned (the inbound task issues its first read), name and address are
\* resolved
ConnectProbeDone(c, ok, info, name, hint) ==
  /\ conn[c].pc = "probe"
  /\ IF ok
     THEN /\ spp' = [spp EXCEPT ![c] =
                       [owner |-> "call", port |-> "open", reader |-> "locked",
                        writer |-> "open", device_addr |-> DeviceAddr(info),
                        device_label |-> DeviceLabel(info), runtime |-> FALSE,
                        name |-> FinalName(name, DeviceLabel(info)),
                        addr |-> FinalAddr(hint, DeviceAddr(info))]]
          /\ ops' = [ops EXCEPT ![c] = <<"read">>]
          /\ inbound' = [inbound EXCEPT ![c] = "reading"]
          /\ outbound' = [outbound EXCEPT ![c] = "recv"]
          /\ conn' = [conn EXCEPT ![c].pc = "handshake"]
     ELSE /\ conn' = [conn EXCEPT ![c].pc = "err",
                                  ![c].ret = [NoResult EXCEPT !.status = "err", !.error = "probe"]]
          /\ UNCHANGED <<spp, ops, inbound, outbound>>
  /\ UNCHANGED <<EVENT_SINK, SESSIONS, entities, disc, hrd, chan, packets, reads, events,
                 listed, install, access, pair>>

\* create_miwear_device resolved. Ok: the device is in the device set, start
\* returns, the session is inserted under device_info.addr (a session already
\* there is dropped) and "device-connected" is emitted. Err: start releases
\* the reader, closes the port and awaits that
ConnectHandshakeDone(c, ok) ==
  /\ conn[c].pc = "handshake"
  /\ IF ok
     THEN LET info == [name |-> spp[c].name, addr |-> spp[c].addr]
              old == SESSIONS[info.addr] IN
          /\ entities' = [entities EXCEPT ![info.addr] = [name |-> info.name, sess |-> c]]
          /\ SESSIONS' = [SESSIONS EXCEPT ![info.addr] = c]
          /\ spp' = [s \in Calls |->
                       IF s = c THEN [spp[c] EXCEPT !.runtime = TRUE, !.owner = "registry"]
                       ELSE IF s = old THEN dropped(spp[s]) ELSE spp[s]]
          /\ emit_event("device-connected", info, <<"connect", c>>)
          /\ conn' = [conn EXCEPT ![c].pc = "ok",
                                  ![c].ret = [status |-> "ok", name |-> info.name,
                                              addr |-> info.addr, error |-> ""]]
          /\ UNCHANGED ops
     ELSE /\ spp' = [spp EXCEPT ![c] =
                       LET y == [@ EXCEPT !.reader = "released"] IN
                         [y EXCEPT !.port = PortAfterClose(y)]]
          /\ ops' = [ops EXCEPT ![c] = @ \o <<"reader.release", "port.close">>]
          /\ conn' = [conn EXCEPT ![c].pc = "fail_close"]
          /\ UNCHANGED <<SESSIONS, entities, events>>
  /\ UNCHANGED <<EVENT_SINK, disc, inbound, outbound, hrd, chan, packets, reads, listed, install, access, pair>>

\* the port.close() of the failure branch resolved: start returns the error
\* and miwear_connect drops the session
ConnectFailClosed(c) ==
  /\ conn[c].pc = "fail_close"
  /\ conn' = [conn EXCEPT ![c].pc = "err", ![c].mark = Len(ops[c]),
                          ![c].ret = [NoResult EXCEPT !.status = "err", !.error = "handshake"]]
  /\ spp' = [spp EXCEPT ![c] = dropped(@)]
  /\ UNCHANGED <<EVENT_SINK, SESSIONS, entities, ops, disc, inbound, outbound, hrd, chan,
                 packets, reads, events, listed, install, access, pair>>

\* create_miwear_device resolved Ok and to_js_value(&device_info) fails: the
\* device is in the device set and the session is inserted under
\* device_info.addr (a session already there is dropped), then the `?` of the
\* conversion returns its error before "device-connected" is emitted
ConnectSerializeFailed(c) ==
  /\ conn[c].pc = "handshake"
  /\ LET info == [name |-> spp[c].name, addr |-> spp[c].addr]
         old == SESSIONS[info.addr] IN
       /\ entities' = [entities EXCEPT ![info.addr] = [name |-> info.name, sess |-> c]]
       /\ SESSIONS' = [SESSIONS EXCEPT ![info.addr] = c]
       /\ spp' = [s \in Calls |->
                    IF s = c THEN [spp[c] EXCEPT !.runtime = TRUE, !.owner = "registry"]
                    ELSE IF s = old THEN dropped(spp[s]) ELSE spp[s]]
  /\ conn' = [conn EXCEPT ![c].pc = "err", ![c].mark = Len(ops[c]),
                          ![c].ret = [NoResult EXCEPT !.status = "err", !.error = "serialize"]]
  /\ UNCHANGED <<EVENT_SINK, ops, events, disc, inbound, outbound, hrd, chan, packets, reads,
                 listed, install, access, pair>>

\* ------------------------------------------------------------------ miwear_disconnect
\* miwear_disconnect looking the session up (get) where the code takes it out
\* of the registry (remove)
DisconnectBeginGet(d, addr) ==
  /\ disc[d].pc = "idle"
  /\ d > 1 => disc[d - 1].pc # "idle"
  /\ CallsMade < MaxCalls
  /\ LET removed == SESSIONS[addr] IN
       /\ SESSIONS' = SESSIONS
       /\ disc' = [MeetDisconnect(d) EXCEPT
                     ![d] = [pc |-> IF removed # NoSession THEN "td_writer" ELSE "done",
                             addr |-> addr, removed |-> removed,
                             ovc |-> \E c \in Calls : ConnFlying(c),
                             ovd |-> \E x \in DCalls \ {d} : DiscFlying(x)]]
       /\ IF removed # NoSession
          THEN /\ spp' = [spp EXCEPT ![removed] = disconnect_begin(@)]
               /\ ops' = [ops EXCEPT ![removed] = Append(@, "writer.close")]
               /\ UNCHANGED <<entities, events>>
          ELSE /\ notify_disconnected(addr, <<"disconnect", d>>)
               /\ UNCHANGED <<spp, ops>>
  /\ conn' = MeetDisconnectC
  /\ UNCHANGED <<EVENT_SINK, inbound, outbound, hrd, chan, packets, reads, listed, install, access, pair>>

\* miwear_disconnect up to its first await: the entry is removed; a removed
\* session starts its teardown, otherwise notify_disconnected runs and the call
\* returns Ok
DisconnectBegin(d, addr) ==
  /\ disc[d].pc = "idle"
  /\ d > 1 => disc[d - 1].pc # "idle"
  /\ CallsMade < MaxCalls
  /\ LET removed == SESSIONS[addr] IN
       /\ SESSIONS' = [SESSIONS EXCEPT ![addr] = NoSession]
       /\ disc' = [MeetDisconnect(d) EXCEPT
                     ![d] = [pc |-> IF removed # NoSession THEN "td_writer" ELSE "done",
                             addr |-> addr, removed |-> removed,
                             ovc |-> \E c \in Calls : ConnFlying(c),
                             ovd |-> \E x \in DCalls \ {d} : DiscFlying(x)]]
       /\ IF removed # NoSession
          THEN /\ spp' = [spp EXCEPT ![removed] = disconnect_begin(@)]
               /\ ops' = [ops EXCEPT ![removed] = Append(@, "writer.close")]
               /\ UNCHANGED <<entities, events>>
          ELSE /\ notify_disconnected(addr, <<"disconnect", d>>)
               /\ UNCHANGED <<spp, ops>>
  /\ conn' = MeetDisconnectC
  /\ UNCHANGED <<EVENT_SINK, inbound, outbound, hrd, chan, packets, reads, listed, install, access, pair>>

\* miwear_disconnect: writer.close() of the removed session resolved
DisconnectWriterClosed(d) ==
  /\ disc[d].pc = "td_writer"
  /\ spp' = [spp EXCEPT ![disc[d].removed] = disconnect_mid(@)]
  /\ ops' = [ops EXCEPT ![disc[d].removed] = @ \o <<"reader.release", "port.close">>]
  /\ disc' = [disc EXCEPT ![d].pc = "td_port"]
  /\ UNCHANGED <<EVENT_SINK, SESSIONS, entities, conn, inbound, outbound, hrd, chan, packets,
                 reads, events, listed, install, access, pair>>

\* miwear_disconnect: port.close() resolved, disconnect() returns,
\* notify_disconnected runs and the call returns Ok
DisconnectPortClosed(d) ==
  /\ disc[d].pc = "td_port"
  /\ spp' = [spp EXCEPT ![disc[d].removed] = disconnect_end(@)]
  /\ ops' = [ops EXCEPT ![disc[d].removed] = Append(@, "runtime.drop")]
  /\ notify_disconnected(disc[d].addr, <<"disconnect", d>>)
  /\ disc' = [disc EXCEPT ![d].pc = "done"]
  /\ UNCHANGED <<EVENT_SINK, SESSIONS, conn, inbound, outbound, hrd, chan, packets, reads,
                 listed, install, access, pair>>

\* ------------------------------------------------------------------ the tasks of a session
\* what one reader.read() of a session can resolve to: a chunk, a result without
\* value, done, or a rejection. A read on a released reader is rejected
ReadResults(c) ==
  IF spp[c].reader = "released" THEN {[kind |-> "err", value |-> <<>>]}
  ELSE {[kind |-> k, value |-> <<>>] : k \in {"undefined", "done", "err"}}
         \cup {[kind |-> "data", value |-> v] : v \in Chunks}

\* where a read result finds its session: in the registry, with its reader
\* released by a teardown, or neither (the handshake runs, or the session left
\* the registry and its reader is still locked)
ReadAt(c) ==
  IF spp[c].owner = "registry" THEN "registered"
  ELSE IF spp[c].reader = "released" THEN "released" ELSE "unregistered"

\* an inbound loop that leaves on a rejected read without calling disconnect_cb
InboundReadSilentError(c, res) ==
  /\ inbound[c] = "reading"
  /\ res \in ReadResults(c)
  /\ res.kind \in {"data", "undefined"} => Len(reads[c]) < MaxReads
  /\ reads' = [reads EXCEPT ![c] = Append(@, [kind |-> res.kind, value |-> res.value,
                                               at |-> ReadAt(c)])]
  /\ CASE res.kind = "err" ->
            /\ inbound' = [inbound EXCEPT ![c] = "ended"]
            /\ UNCHANGED <<spp, ops, packets, hrd>>
       [] res.kind = "done" ->
            /\ spp' = [spp EXCEPT ![c].reader = "released"]
            /\ ops' = [ops EXCEPT ![c] = Append(@, "inbound.release")]
            /\ hrd' = [hrd EXCEPT ![c] = "spawned"]
            /\ inbound' = [inbound EXCEPT ![c] = "ended"]
            /\ UNCHANGED packets
       [] res.kind = "undefined" ->
            /\ ops' = [ops EXCEPT ![c] = Append(@, "read")]
            /\ UNCHANGED <<spp, packets, hrd, inbound>>
       [] res.kind = "data" ->
            /\ packets' = [packets EXCEPT ![c] = Append(@, [addr |-> spp[c].addr, data |-> res.value])]
            /\ ops' = [ops EXCEPT ![c] = Append(@, "read")]
            /\ UNCHANGED <<spp, hrd, inbound>>
  /\ UNCHANGED <<EVENT_SINK, SESSIONS, entities, conn, disc, outbound, chan, events, listed, install, access, pair>>

\* the inbound loop without its `continue`: a result without value is forwarded
\* as an empty chunk
InboundReadNoSkip(c, res) ==
  /\ inbound[c] = "reading"
  /\ res \in ReadResults(c)
  /\ res.kind \in {"data", "undefined"} => Len(reads[c]) < MaxReads
  /\ reads' = [reads EXCEPT ![c] = Append(@, [kind |-> res.kind, value |-> res.value,
                                               at |-> ReadAt(c)])]
  /\ CASE res.kind = "err" ->
            /\ hrd' = [hrd EXCEPT ![c] = "spawned"]
            /\ inbound' = [inbound EXCEPT ![c] = "ended"]
            /\ UNCHANGED <<spp, ops, packets>>
       [] res.kind = "done" ->
            /\ spp' = [spp EXCEPT ![c].reader = "released"]
            /\ ops' = [ops EXCEPT ![c] = Append(@, "inbound.release")]
            /\ hrd' = [hrd EXCEPT ![c] = "spawned"]
            /\ inbound' = [inbound EXCEPT ![c] = "ended"]
            /\ UNCHANGED packets
       [] res.kind = "undefined" ->
            /\ packets' = [packets EXCEPT ![c] = Append(@, [addr |-> spp[c].addr, data |-> res.value])]
            /\ ops' = [ops EXCEPT ![c] = Append(@, "read")]
            /\ UNCHANGED <<spp, hrd, inbound>>
       [] res.kind = "data" ->
            /\ packets' = [packets EXCEPT ![c] = Append(@, [addr |-> spp[c].addr, data |-> res.value])]
            /\ ops' = [ops EXCEPT ![c] = Append(@, "read")]
            /\ UNCHANGED <<spp, hrd, inbound>>
  /\ UNCHANGED <<EVENT_SINK, SESSIONS, entities, conn, disc, outbound, chan, events, listed, install, access, pair>>

\* one turn of the inbound loop of XiaomiSpp::start: the pending read resolved
InboundRead(c, res) ==
  /\ inbound[c] = "reading"
  /\ res \in ReadResults(c)
  /\ res.kind \in {"data", "undefined"} => Len(reads[c]) < MaxReads
  /\ reads' = [reads EXCEPT ![c] = Append(@, [kind |-> res.kind, value |-> res.value,
                                               at |-> ReadAt(c)])]
  /\ CASE res.kind = "err" ->
            /\ hrd' = [hrd EXCEPT ![c] = "spawned"]
            /\ inbound' = [inbound EXCEPT ![c] = "ended"]
            /\ UNCHANGED <<spp, ops, packets>>
       [] res.kind = "done" ->
            /\ spp' = [spp EXCEPT ![c].reader = "released"]
            /\ ops' = [ops EXCEPT ![c] = Append(@, "inbound.release")]
            /\ hrd' = [hrd EXCEPT ![c] = "spawned"]
            /\ inbound' = [inbound EXCEPT ![c] = "ended"]
            /\ UNCHANGED packets
       [] res.kind = "undefined" ->
            /\ ops' = [ops EXCEPT ![c] = Append(@, "read")]
            /\ UNCHANGED <<spp, packets, hrd, inbound>>
       [] res.kind = "data" ->
            /\ packets' = [packets EXCEPT ![c] = Append(@, [addr |-> spp[c].addr, data |-> res.value])]
            /\ ops' = [ops EXCEPT ![c] = Append(@, "read")]
            /\ UNCHANGED <<spp, hrd, inbound>>
  /\ UNCHANGED <<EVENT_SINK, SESSIONS, entities, conn, disc, outbound, chan, events, listed, install, access, pair>>

\* the handle_remote_disconnect task an inbound task spawned runs: the entry of
\* the address is removed, a session found there is dropped, and
\* notify_disconnected runs
handle_remote_disconnect(c) ==
  /\ hrd[c] = "spawned"
  /\ LET removed == SESSIONS[spp[c].addr] IN
       /\ SESSIONS' = [SESSIONS EXCEPT ![spp[c].addr] = NoSession]
       /\ spp' = IF removed # NoSession THEN [spp EXCEPT ![removed] = dropped(@)] ELSE spp
  /\ notify_disconnected(spp[c].addr, <<"remote", c>>)
  /\ hrd' = [hrd EXCEPT ![c] = "done"]
  /\ UNCHANGED <<EVENT_SINK, ops, conn, disc, inbound, outbound, chan, packets, reads, listed, install, access, pair>>

\* a write closure that hands the error of tx.send to the dispatcher
DispatcherSendChecked(c, data) ==
  /\ ClosureAlive(c)
  /\ Len(chan[c].submitted) < MaxSend
  /\ chan' = [chan EXCEPT ![c].submitted = Append(@, data),
                          ![c].queue = IF outbound[c] = "ended" THEN @ ELSE Append(@, data),
                          ![c].answers = Append(@, [ret |-> IF outbound[c] = "ended" THEN "Err" ELSE "Ok",
                                                    closed |-> outbound[c] = "ended"])]
  /\ UNCHANGED <<EVENT_SINK, SESSIONS, entities, spp, ops, conn, disc, inbound, outbound, hrd, packets,
                 reads, events, listed, install, access, pair>>

\* the write closure handed to create_miwear_device: tx.send(data) on the
\* unbounded queue, whose result is ignored, then Ok(()); a closed queue drops
\* the buffer
DispatcherSend(c, data) ==
  /\ ClosureAlive(c)
  /\ Len(chan[c].submitted) < MaxSend
  /\ chan' = [chan EXCEPT ![c].submitted = Append(@, data),
                          ![c].queue = IF outbound[c] = "ended" THEN @ ELSE Append(@, data),
                          ![c].answers = Append(@, [ret |-> "Ok", closed |-> outbound[c] = "ended"])]
  /\ UNCHANGED <<EVENT_SINK, SESSIONS, entities, spp, ops, conn, disc, inbound, outbound, hrd, packets,
                 reads, events, listed, install, access, pair>>

\* an outbound loop that takes the newest buffer of the queue, not the oldest
OutboundRecvNewest(c) ==
  /\ outbound[c] = "recv"
  /\ chan[c].queue # <<>>
  /\ chan' = [chan EXCEPT ![c].queue = SubSeq(@, 1, Len(@) - 1), ![c].inflight = <<chan[c].queue[Len(chan[c].queue)]>>,
                          ![c].written = Append(@, chan[c].queue[Len(chan[c].queue)])]
  /\ ops' = [ops EXCEPT ![c] = Append(@, "write")]
  /\ outbound' = [outbound EXCEPT ![c] = "writing"]
  /\ UNCHANGED <<EVENT_SINK, SESSIONS, entities, spp, conn, disc, inbound, hrd, packets, reads, events,
                 listed, install, access, pair>>

\* the outbound loop of XiaomiSpp::start: rx.recv() yields the next buffer and
\* writer.write() is issued
OutboundRecv(c) ==
  /\ outbound[c] = "recv"
  /\ chan[c].queue # <<>>
  /\ chan' = [chan EXCEPT ![c].queue = Tail(@), ![c].inflight = <<Head(chan[c].queue)>>,
                          ![c].written = Append(@, Head(chan[c].queue))]
  /\ ops' = [ops EXCEPT ![c] = Append(@, "write")]
  /\ outbound' = [outbound EXCEPT ![c] = "writing"]
  /\ UNCHANGED <<EVENT_SINK, SESSIONS, entities, spp, conn, disc, inbound, hrd, packets, reads, events,
                 listed, install, access, pair>>

\* an outbound task that calls disconnect_cb when its write is rejected
OutboundWriteDoneTrigger(c, ok) ==
  /\ outbound[c] = "writing"
  /\ ok => spp[c].writer = "open" /\ spp[c].port = "open"
  /\ outbound' = [outbound EXCEPT ![c] = IF ok THEN "recv" ELSE "ended"]
  /\ chan' = [chan EXCEPT ![c].inflight = <<>>, ![c].queue = IF ok THEN @ ELSE <<>>]
  /\ hrd' = IF ok \/ hrd[c] # "none" THEN hrd ELSE [hrd EXCEPT ![c] = "spawned"]
  /\ UNCHANGED <<EVENT_SINK, SESSIONS, entities, spp, ops, conn, disc, inbound, packets, reads,
                 events, listed, install, access, pair>>

\* the write resolved; it is rejected on a closed writer or port. A rejection
\* ends the task, which drops the receiver and with it the queue
OutboundWriteDone(c, ok) ==
  /\ outbound[c] = "writing"
  /\ ok => spp[c].writer = "open" /\ spp[c].port = "open"
  /\ outbound' = [outbound EXCEPT ![c] = IF ok THEN "recv" ELSE "ended"]
  /\ chan' = [chan EXCEPT ![c].inflight = <<>>, ![c].queue = IF ok THEN @ ELSE <<>>]
  /\ UNCHANGED <<EVENT_SINK, SESSIONS, entities, spp, ops, conn, disc, inbound, hrd, packets, reads,
                 events, listed, install, access, pair>>

\* rx.recv() fails once the queue is empty and every sender is dropped
OutboundClosed(c) ==
  /\ outbound[c] = "recv"
  /\ chan[c].queue = <<>>
  /\ ~ClosureAlive(c)
  /\ outbound' = [outbound EXCEPT ![c] = "ended"]
  /\ UNCHANGED <<EVENT_SINK, SESSIONS, entities, spp, ops, conn, disc, inbound, hrd, chan, packets,
                 reads, events, listed, install, access, pair>>

\* ------------------------------------------------------------------ miwear_get_connected_devices
\* the {name, address} of every XiaomiDevice of the device set
connected_devices == {[name |-> entities[a].name, addr |-> a] : a \in {x \in Addrs : entities[x] # NoDevice}}

\* the {name, address} of every session of the registry
registered_sessions == {[name |-> spp[SESSIONS[a]].name, addr |-> a] : a \in Registered}

GetConnectedDevices ==
  /\ listed.asked < MaxList
  /\ listed' = [asked |-> listed.asked + 1, devices |-> connected_devices, registered |-> registered_sessions]
  /\ UNCHANGED <<EVENT_SINK, SESSIONS, entities, spp, ops, conn, disc, inbound, outbound, hrd, chan,
                 packets, reads, events, install, access, pair>>

\* ------------------------------------------------------------------ miwear_install
\* MassDataType::try_from(res_type): the resource types it accepts and rejects
ResTypes == {"valid", "invalid"}

\* what the closure handed to with_miwear_device_mut answers on a device that
\* exists: the install request is started, or the install component or system
\* is not found, or the request is refused
StartResults == {"started", "Install system not found", "request refused"}

\* a miwear_install that spawns its forwarding task before it looks the device up
InstallBeginSpawnFirst(addr, res, cb, start) ==
  /\ install.pc = "idle"
  /\ LET err == IF res = "invalid" THEN "invalid resource type"
                ELSE IF entities[addr] = NoDevice THEN "Device not found"
                ELSE IF start # "started" THEN start ELSE ""
     IN install' =
          IF err # ""
          THEN [install EXCEPT !.pc = "err", !.addr = addr, !.res = res, !.cb = cb, !.ret = err,
                               !.fwd = IF cb /\ res = "valid" THEN "waiting" ELSE "none"]
          ELSE [install EXCEPT !.pc = "requested", !.addr = addr, !.res = res, !.cb = cb,
                               !.rx = "open", !.tx = TRUE, !.notifier = TRUE, !.sys = "running"]
  /\ UNCHANGED <<EVENT_SINK, SESSIONS, entities, spp, ops, conn, disc, inbound, outbound, hrd,
                 chan, packets, reads, events, listed, access, pair>>

\* miwear_install up to the await of with_miwear_device_mut: the resource type
\* is converted, the progress channel and the notifier are made, and the
\* closure runs on the device set. Without device, without install system or
\* with a refused request the call returns that error and drops the channel
InstallBegin(addr, res, cb, start) ==
  /\ install.pc = "idle"
  /\ LET err == IF res = "invalid" THEN "invalid resource type"
                ELSE IF entities[addr] = NoDevice THEN "Device not found"
                ELSE IF start # "started" THEN start ELSE ""
     IN install' =
          IF err # ""
          THEN [install EXCEPT !.pc = "err", !.addr = addr, !.res = res, !.cb = cb, !.ret = err]
          ELSE [install EXCEPT !.pc = "requested", !.addr = addr, !.res = res, !.cb = cb,
                               !.rx = "open", !.tx = TRUE, !.notifier = TRUE, !.sys = "running"]
  /\ UNCHANGED <<EVENT_SINK, SESSIONS, entities, spp, ops, conn, disc, inbound, outbound, hrd,
                 chan, packets, reads, events, listed, access, pair>>

\* with_miwear_device_mut resolved with the install future: with a callback the
\* forwarding task is spawned on the receiver, without one the receiver is
\* dropped, which closes the channel and discards what it holds
InstallRequested ==
  /\ install.pc = "requested"
  /\ install' = IF install.cb
                THEN [install EXCEPT !.pc = "awaiting", !.fwd = "waiting",
                                     !.early = Len(install.emitted)]
                ELSE [install EXCEPT !.pc = "awaiting", !.rx = "dropped", !.queue = <<>>,
                                     !.early = Len(install.emitted)]
  /\ UNCHANGED <<EVENT_SINK, SESSIONS, entities, spp, ops, conn, disc, inbound, outbound, hrd,
                 chan, packets, reads, events, listed, access, pair>>

\* a notifier that waits for the receiver: it cannot return on a closed channel
ProducerEmitWaiting ==
  /\ install.notifier
  /\ install.sys = "running"
  /\ Len(install.emitted) < MaxEvents
  /\ install.rx = "open"
  /\ install' = [install EXCEPT !.emitted = Append(@, Len(install.emitted) + 1),
                                !.queue = Append(@, Len(install.emitted) + 1)]
  /\ UNCHANGED <<EVENT_SINK, SESSIONS, entities, spp, ops, conn, disc, inbound, outbound, hrd,
                 chan, packets, reads, events, listed, access, pair>>

\* the install system calls progress_notifier: sender.try_send(payload), whose
\* result is ignored. The event is queued while the receiver lives
ProducerEmit ==
  /\ install.notifier
  /\ install.sys = "running"
  /\ Len(install.emitted) < MaxEvents
  /\ install' = [install EXCEPT
                   !.emitted = Append(@, Len(install.emitted) + 1),
                   !.queue = IF install.rx = "open" THEN Append(@, Len(install.emitted) + 1)
                             ELSE @]
  /\ UNCHANGED <<EVENT_SINK, SESSIONS, entities, spp, ops, conn, disc, inbound, outbound, hrd,
                 chan, packets, reads, events, listed, access, pair>>

\* the install system ends the transfer with its terminal result and drops the
\* notifier
SystemDone(result) ==
  /\ install.sys = "running"
  /\ install' = [install EXCEPT !.sys = result, !.notifier = FALSE]
  /\ UNCHANGED <<EVENT_SINK, SESSIONS, entities, spp, ops, conn, disc, inbound, outbound, hrd,
                 chan, packets, reads, events, listed, access, pair>>

\* a miwear_install that returns without dropping progress_tx
InstallReturnKeepsSender ==
  /\ install.pc = "awaiting"
  /\ install.sys \in {"ok", "err"}
  /\ install' = [install EXCEPT !.pc = install.sys,
                                !.ret = IF install.sys = "ok" THEN "Ok" ELSE "install failed",
                                !.mark = Len(install.delivered)]
  /\ UNCHANGED <<EVENT_SINK, SESSIONS, entities, spp, ops, conn, disc, inbound, outbound, hrd,
                 chan, packets, reads, events, listed, access, pair>>

\* install_future resolved: progress_tx is dropped and the terminal result returned
InstallReturn ==
  /\ install.pc = "awaiting"
  /\ install.sys \in {"ok", "err"}
  /\ install' = [install EXCEPT !.pc = install.sys, !.tx = FALSE,
                                !.ret = IF install.sys = "ok" THEN "Ok" ELSE "install failed",
                                !.mark = Len(install.delivered)]
  /\ UNCHANGED <<EVENT_SINK, SESSIONS, entities, spp, ops, conn, disc, inbound, outbound, hrd,
                 chan, packets, reads, events, listed, access, pair>>

\* a forwarding task that hands over the newest queued event
ForwardNewest ==
  /\ install.fwd = "waiting"
  /\ install.queue # <<>>
  /\ install' = [install EXCEPT !.queue = SubSeq(@, 1, Len(@) - 1),
                                !.delivered = Append(@, install.queue[Len(install.queue)])]
  /\ UNCHANGED <<EVENT_SINK, SESSIONS, entities, spp, ops, conn, disc, inbound, outbound, hrd,
                 chan, packets, reads, events, listed, access, pair>>

\* the forwarding task: receiver.recv() yields the oldest queued event, which
\* is handed to the callback
Forward ==
  /\ install.fwd = "waiting"
  /\ install.queue # <<>>
  /\ install' = [install EXCEPT !.queue = Tail(@),
                                !.delivered = Append(@, Head(install.queue))]
  /\ UNCHANGED <<EVENT_SINK, SESSIONS, entities, spp, ops, conn, disc, inbound, outbound, hrd,
                 chan, packets, reads, events, listed, access, pair>>

\* the forwarding task: recv() fails once the queue is empty and both senders
\* are dropped; the task ends and drops the receiver
ForwardEnd ==
  /\ install.fwd = "waiting"
  /\ install.queue = <<>>
  /\ ~install.tx /\ ~install.notifier
  /\ install' = [install EXCEPT !.fwd = "ended", !.rx = "dropped"]
  /\ UNCHANGED <<EVENT_SINK, SESSIONS, entities, spp, ops, conn, disc, inbound, outbound, hrd,
                 chan, packets, reads, events, listed, access, pair>>

\* ------------------------------------------------------------------ subsystem accessors
\* with_info_system, with_resource_system, with_watchface_system,
\* with_thirdparty_app_system: the device is looked up, then its component and
\* system, then the closure runs on the system
AccessResults == {"Ok", "system not found"}

SubsystemCall(addr, found) ==
  /\ access.asked < MaxAccess
  /\ access' = [asked |-> access.asked + 1, addr |-> addr,
                ret |-> IF entities[addr] = NoDevice THEN "Device not found" ELSE found]
  /\ UNCHANGED <<EVENT_SINK, SESSIONS, entities, spp, ops, conn, disc, inbound, outbound, hrd,
                 chan, packets, reads, events, listed, install, pair>>

\* ------------------------------------------------------------------ ensure_bluetooth_pairing
\* what the browser offers: navigator.bluetooth (undefined, an object that is
\* no Bluetooth instance, or one), its requestDevice property (no function, or
\* one) and what calling requestDevice does (it throws, returns no promise, or
\* returns one)
BluetoothValues == {"undefined", "wrong_type", "ok"}
RequestFnValues == {"missing", "function"}
RequestCalls == {"throws", "not_promise", "promise"}
\* what the requestDevice promise settles to
RequestResults == {"rejected", "not_device", "device_no_gatt", "device_connected", "device"}

\* ensure_bluetooth_pairing up to its first await: every `?` returns the error
PairBegin(win, bt, fn, call) ==
  /\ pair.pc = "idle"
  /\ LET at == IF ~win THEN "window"
               ELSE IF bt # "ok" THEN "bluetooth " \o bt
               ELSE IF fn # "function" THEN "requestDevice " \o fn
               ELSE IF call # "promise" THEN "call " \o call
               ELSE ""
         ret == IF at = "" THEN ""
                ELSE IF at \in {"window", "bluetooth undefined"} THEN "Ok(None)" ELSE "Err"
     IN pair' = IF ret # "" THEN [pair EXCEPT !.pc = "done", !.ret = ret, !.at = at]
                ELSE [pair EXCEPT !.pc = "requesting", !.log = Append(@, "requestDevice")]
  /\ UNCHANGED <<EVENT_SINK, SESSIONS, entities, spp, ops, conn, disc, inbound, outbound, hrd,
                 chan, packets, reads, events, listed, install, access>>

\* the requestDevice promise settled: a rejection or a value that is no
\* BluetoothDevice gives Ok(None); a device without gatt gives the pair; a
\* device whose gatt is not connected is connected, a connected one is probed
PairRequested(res) ==
  /\ pair.pc = "requesting"
  /\ pair' = CASE res \in {"rejected", "not_device"} -> [pair EXCEPT !.pc = "done", !.ret = "Ok(None)"]
               [] res = "device_no_gatt" -> [pair EXCEPT !.pc = "done", !.ret = "Ok(Some)"]
               [] res = "device_connected" ->
                    [pair EXCEPT !.pc = "service", !.connected = TRUE, !.svc = 1,
                                 !.log = Append(@, "getPrimaryService")]
               [] res = "device" -> [pair EXCEPT !.pc = "connecting", !.log = Append(@, "connect")]
  /\ UNCHANGED <<EVENT_SINK, SESSIONS, entities, spp, ops, conn, disc, inbound, outbound, hrd,
                 chan, packets, reads, events, listed, install, access>>

\* gatt.connect() settled; a rejection is logged and the probing is skipped
PairConnected(ok) ==
  /\ pair.pc = "connecting"
  /\ pair' = IF ok
             THEN [pair EXCEPT !.pc = "service", !.connected = TRUE, !.connected_here = TRUE,
                               !.svc = 1, !.log = Append(@, "getPrimaryService")]
             ELSE [pair EXCEPT !.pc = "done", !.ret = "Ok(Some)"]
  /\ UNCHANGED <<EVENT_SINK, SESSIONS, entities, spp, ops, conn, disc, inbound, outbound, hrd,
                 chan, packets, reads, events, listed, install, access>>

\* the loops go on with the next characteristic, the next service, or the sleep
PairNext(p, nextService) ==
  IF ~nextService /\ p.chr < NumCharacteristics
  THEN [p EXCEPT !.pc = "char", !.chr = @ + 1, !.log = Append(@, "getCharacteristic")]
  ELSE IF p.svc < NumServices
       THEN [p EXCEPT !.pc = "service", !.svc = @ + 1, !.chr = 0,
                      !.log = Append(@, "getPrimaryService")]
       ELSE [p EXCEPT !.pc = "sleep", !.chr = 0]

\* getPrimaryService settled: a failure goes on with the next service
PairService(ok) ==
  /\ pair.pc = "service"
  /\ pair' = PairNext(pair, ~ok)
  /\ UNCHANGED <<EVENT_SINK, SESSIONS, entities, spp, ops, conn, disc, inbound, outbound, hrd,
                 chan, packets, reads, events, listed, install, access>>

\* getCharacteristic settled: a failure goes on with the next characteristic,
\* otherwise the zero byte is written (a write that cannot be started is skipped)
PairChar(ok, writable) ==
  /\ pair.pc = "char"
  /\ pair' = IF ok /\ writable THEN [pair EXCEPT !.pc = "write", !.log = Append(@, "writeValue")]
             ELSE PairNext(pair, FALSE)
  /\ UNCHANGED <<EVENT_SINK, SESSIONS, entities, spp, ops, conn, disc, inbound, outbound, hrd,
                 chan, packets, reads, events, listed, install, access>>

\* the write settled; its result is ignored
PairWrite ==
  /\ pair.pc = "write"
  /\ pair' = PairNext(pair, FALSE)
  /\ UNCHANGED <<EVENT_SINK, SESSIONS, entities, spp, ops, conn, disc, inbound, outbound, hrd,
                 chan, packets, reads, events, listed, install, access>>

\* the sleep of 500 ms is over: a gatt connected here is disconnected (it may
\* have dropped by itself) and the pair is returned
PairSlept(still) ==
  /\ pair.pc = "sleep"
  /\ pair' = [pair EXCEPT !.pc = "done", !.ret = "Ok(Some)", !.connected = still /\ ~pair.connected_here,
                          !.log = IF pair.connected_here /\ still THEN Append(@, "disconnect") ELSE @]
  /\ UNCHANGED <<EVENT_SINK, SESSIONS, entities, spp, ops, conn, disc, inbound, outbound, hrd,
                 chan, packets, reads, events, listed, install, access>>

\* ------------------------------------------------------------------ specifications
\* the arguments and probes of the session life cycle
LifeInfos == {InfoSerial, InfoBare}
DiscAddrs == {DeviceAddr(i) : i \in LifeInfos}

\* the session life cycle with the sink registered: overlapping connect and disconnect calls, stream
\* ends and remote disconnects, without payload traffic
Next ==
  \/ \E c \in Calls :
       \/ ConnectBegin(c)
       \/ ConnectTdWriterClosed(c)
       \/ ConnectTdPortClosed(c)
       \/ \E ok \in BOOLEAN, info \in LifeInfos : ConnectProbeDone(c, ok, info, "Watch", "")
       \/ \E ok \in BOOLEAN : ConnectHandshakeDone(c, ok)
       \/ ConnectFailClosed(c)
       \/ \E k \in {"done", "err"} : InboundRead(c, [kind |-> k, value |-> <<>>])
       \/ handle_remote_disconnect(c)
  \/ \E d \in DCalls :
       \/ \E a \in DiscAddrs : DisconnectBegin(d, a)
       \/ DisconnectWriterClosed(d)
       \/ DisconnectPortClosed(d)

Spec == InitSink /\ [][Next]_vars

\* one session from connect to its end by disconnect or stream end, with
\* register_event_sink called at any point and the first notifications emitted
\* before any sink is registered
NextSink ==
  \/ ConnectBegin(1)
  \/ \E ok \in BOOLEAN, info \in LifeInfos : ConnectProbeDone(1, ok, info, "Watch", "")
  \/ \E ok \in BOOLEAN : ConnectHandshakeDone(1, ok)
  \/ ConnectFailClosed(1)
  \/ \E k \in {"done", "err"} : InboundRead(1, [kind |-> k, value |-> <<>>])
  \/ handle_remote_disconnect(1)
  \/ \E d \in DCalls :
       \/ \E a \in DiscAddrs : DisconnectBegin(d, a)
       \/ DisconnectWriterClosed(d)
       \/ DisconnectPortClosed(d)
  \/ \E f \in Sinks : RegisterEventSink(f)

SpecSink == Init /\ [][NextSink]_vars

\* one session and what its inbound task reads: one miwear_connect call with
\* every argument and probe, every read result, one miwear_disconnect
NextInbound ==
  \/ ConnectBegin(1)
  \/ \E ok \in BOOLEAN, info \in ProbeInfos, name \in NameArgs, hint \in HintArgs :
       ConnectProbeDone(1, ok, info, name, hint)
  \/ \E ok \in BOOLEAN : ConnectHandshakeDone(1, ok)
  \/ ConnectFailClosed(1)
  \/ \E res \in ReadResults(1) : InboundRead(1, res)
  \/ handle_remote_disconnect(1)
  \/ \E a \in Addrs : DisconnectBegin(1, a)
  \/ DisconnectWriterClosed(1)
  \/ DisconnectPortClosed(1)

SpecInbound == InitSink /\ [][NextInbound]_vars

\* one session and what its outbound task writes: the buffers the dispatcher
\* submits during and after the handshake, the end of the stream, one
\* miwear_disconnect
NextOutbound ==
  \/ ConnectBegin(1)
  \/ \E ok \in BOOLEAN, info \in LifeInfos : ConnectProbeDone(1, ok, info, "Watch", "")
  \/ \E ok \in BOOLEAN : ConnectHandshakeDone(1, ok)
  \/ ConnectFailClosed(1)
  \/ \E k \in {"done", "err"} : InboundRead(1, [kind |-> k, value |-> <<>>])
  \/ handle_remote_disconnect(1)
  \/ \E data \in Chunks : DispatcherSend(1, data)
  \/ OutboundRecv(1)
  \/ \E ok \in BOOLEAN : OutboundWriteDone(1, ok)
  \/ OutboundClosed(1)
  \/ \E a \in DiscAddrs : DisconnectBegin(1, a)
  \/ DisconnectWriterClosed(1)
  \/ DisconnectPortClosed(1)

SpecOutbound == InitSink /\ [][NextOutbound]_vars

\* one session and its two tasks as the executor and the browser run them: a
\* task that can run is run, a write that was issued settles, and a read on a
\* released reader is rejected
SpecPumps ==
  /\ InitSink /\ [][NextOutbound]_vars
  /\ WF_vars(spp[1].reader = "released" /\ InboundRead(1, [kind |-> "err", value |-> <<>>]))
  /\ WF_vars(OutboundRecv(1))
  /\ WF_vars(\E ok \in BOOLEAN : OutboundWriteDone(1, ok))
  /\ WF_vars(OutboundClosed(1))

\* the session life cycle with every way in which miwear_connect returns an
\* error: the probe, the handshake, the conversion of the result
NextConnect ==
  \/ Next
  \/ \E c \in Calls : ConnectSerializeFailed(c)

SpecConnect == InitSink /\ [][NextConnect]_vars

\* the session life cycle with miwear_get_connected_devices called at any point
NextList == Next \/ GetConnectedDevices

SpecList == InitSink /\ [][NextList]_vars

\* one session, one miwear_install and one accessor call at any point of its
\* life; the executor runs a task that can run (the continuation of
\* miwear_install, the forwarding task)
NextInstall ==
  \/ ConnectBegin(1)
  \/ \E ok \in BOOLEAN : ConnectProbeDone(1, ok, InfoSerial, "Watch", "")
  \/ \E ok \in BOOLEAN : ConnectHandshakeDone(1, ok)
  \/ ConnectFailClosed(1)
  \/ \E a \in DiscAddrs : DisconnectBegin(1, a)
  \/ DisconnectWriterClosed(1)
  \/ DisconnectPortClosed(1)
  \/ \E a \in DiscAddrs, res \in ResTypes, cb \in BOOLEAN, start \in StartResults :
       InstallBegin(a, res, cb, start)
  \/ InstallRequested
  \/ ProducerEmit
  \/ \E result \in {"ok", "err"} : SystemDone(result)
  \/ InstallReturn
  \/ Forward
  \/ ForwardEnd
  \/ \E a \in DiscAddrs, found \in AccessResults : SubsystemCall(a, found)

SpecInstall ==
  InitSink /\ [][NextInstall]_vars /\ WF_vars(InstallRequested) /\ WF_vars(Forward)

\* miwear_install with the executor running every task that can run, the
\* forwarding task at a closed queue included
SpecForwarding ==
  /\ InitSink /\ [][NextInstall]_vars
  /\ WF_vars(InstallRequested) /\ WF_vars(Forward) /\ WF_vars(ForwardEnd)

\* one ensure_bluetooth_pairing call against every browser
NextPairing ==
  \/ \E win \in BOOLEAN, bt \in BluetoothValues, fn \in RequestFnValues, call \in RequestCalls :
       PairBegin(win, bt, fn, call)
  \/ \E res \in RequestResults : PairRequested(res)
  \/ \E ok \in BOOLEAN : PairConnected(ok)
  \/ \E ok \in BOOLEAN : PairService(ok)
  \/ \E ok, writable \in BOOLEAN : PairChar(ok, writable)
  \/ PairWrite
  \/ \E still \in BOOLEAN : PairSlept(still)

SpecPairing == Init /\ [][NextPairing]_vars

\* ------------------------------------------------------------------ the notifications of a session
\* the notifications that reached a sink
EventIdx == {i \in 1 .. Len(events) : events[i].sink # NoSink}

\* where the "device-connected" of a miwear_connect call is in the log (0: nowhere)
ConnectedAt(c) ==
  LET at == {i \in EventIdx : events[i].event = "device-connected" /\ events[i].by = <<"connect", c>>}
  IN IF at = {} THEN 0 ELSE CHOOSE i \in at : TRUE

\* where the next "device-connected" for the address of session c is (past the end: nowhere)
NextConnectedAt(c) ==
  LET later == {j \in EventIdx : /\ j > ConnectedAt(c)
                                /\ events[j].event = "device-connected"
                                /\ events[j].addr = spp[c].addr}
  IN IF later = {} THEN Len(events) + 1 ELSE CHOOSE j \in later : \A k \in later : j <= k

\* the "device-disconnected" notifications for the address of session c from its
\* registration to the next registration under that address
DisconnectedOf(c) ==
  {i \in EventIdx : /\ ConnectedAt(c) > 0
                    /\ ConnectedAt(c) < i
                    /\ i < NextConnectedAt(c)
                    /\ events[i].event = "device-disconnected"
                    /\ events[i].addr = spp[c].addr}

\* where the read that ended the inbound task of a session found it ("none":
\* the task has not ended)
StreamEnd(c) ==
  IF reads[c] # <<>> /\ reads[c][Len(reads[c])].kind \in {"done", "err"}
  THEN reads[c][Len(reads[c])].at ELSE "none"

\* the notifications a miwear_disconnect call emitted
EmittedBy(d) == {i \in EventIdx : events[i].by = <<"disconnect", d>>}

\* no miwear_connect call was made but the one that created session s
OnlyConnect(s) == \A c \in Calls \ {s} : conn[c].pc = "idle"

\* ------------------------------------------------------------------ claims
\* C1: after a single miwear_disconnect(addr) on a registered session, with no
\* other disconnect call for addr and whatever the inbound task does on the
\* released reader, exactly one "device-disconnected" is emitted for addr.
C1_SingleDisconnectNotifiesOnce ==
  \A d \in DCalls :
    LET s == disc[d].removed IN
      (/\ s # NoSession
       /\ OnlyConnect(s)
       /\ StreamEnd(s) \in {"none", "released"}
       /\ \A e \in DCalls \ {d} : disc[e].pc # "idle" => disc[e].addr # disc[d].addr)
      => /\ Cardinality(DisconnectedOf(s)) <= 1
         /\ disc[d].pc = "done" => Cardinality(DisconnectedOf(s)) = 1

\* C2: when the transport of a registered session reports end-of-stream or a
\* read error and miwear_disconnect is never called, exactly one
\* "device-disconnected" is emitted for the address of the session, and the
\* session is no longer in the registry.
C2_StreamEndNotifiesOnce ==
  \A c \in Calls :
    (/\ StreamEnd(c) = "registered"
     /\ \A d \in DCalls : disc[d].pc = "idle")
    => /\ Cardinality(DisconnectedOf(c)) <= 1
       /\ hrd[c] = "done" => Cardinality(DisconnectedOf(c)) = 1 /\ SESSIONS[spp[c].addr] # c

\* C3: two miwear_disconnect(addr) calls, one after the other, on a registered
\* session: the teardown (writer close, reader release, port close) is done
\* once, and exactly two "device-disconnected" are emitted, the first with the
\* name of the session and the second with an empty name.
C3_TwoDisconnectsInSequence ==
  \A d1, d2 \in DCalls :
    LET s == disc[d1].removed
        D == DisconnectedOf(s) IN
      (/\ d1 < d2
       /\ s # NoSession
       /\ OnlyConnect(s)
       /\ StreamEnd(s) \in {"none", "released"}
       /\ disc[d2].pc # "idle"
       /\ disc[d2].addr = disc[d1].addr
       /\ ~disc[d1].ovd /\ ~disc[d1].ovc /\ ~disc[d2].ovd /\ ~disc[d2].ovc)
      => /\ Count(ops[s], "writer.close") = 1
         /\ Count(ops[s], "reader.release") = 1
         /\ Count(ops[s], "port.close") = 1
         /\ Cardinality(D) <= 2
         /\ disc[d2].pc = "done" =>
              /\ Cardinality(D) = 2
              /\ \E i, j \in D :
                   /\ i < j
                   /\ events[i].by = <<"disconnect", d1>> /\ events[i].name = spp[s].name
                   /\ events[j].by = <<"disconnect", d2>> /\ events[j].name = ""

\* C4: miwear_disconnect(addr) for an address that is not in the registry
\* emits exactly one "device-disconnected", with the payload {name: "",
\* address: addr}, and no transport operation is performed.
C4_UnknownAddressPayload ==
  \A d \in DCalls :
    (disc[d].pc # "idle" /\ disc[d].removed = NoSession)
    => /\ Cardinality(EmittedBy(d)) <= 1
       /\ \A i \in EmittedBy(d) :
            /\ events[i].event = "device-disconnected"
            /\ events[i].name = ""
            /\ events[i].addr = disc[d].addr
       /\ disc[d].pc = "done" => Cardinality(EmittedBy(d)) = 1

\* C5: when miwear_connect succeeds, the session is registered under the
\* returned address, exactly one "device-connected" is emitted by the call,
\* with the {name, address} it returns, and the list of connected devices then
\* holds exactly that one entry.
C5_ConnectSuccess ==
  [][\A c \in Calls :
       (conn[c].pc = "handshake" /\ conn'[c].pc = "ok") =>
         LET r == conn'[c].ret
             E == {i \in 1 .. Len(events') : /\ events'[i].by = <<"connect", c>>
                                              /\ events'[i].sink # NoSink} IN
           /\ r.status = "ok"
           /\ SESSIONS'[r.addr] = c
           /\ Cardinality(E) = 1
           /\ \A i \in E : /\ events'[i].event = "device-connected"
                           /\ events'[i].name = r.name
                           /\ events'[i].addr = r.addr
           /\ connected_devices' = {[name |-> r.name, addr |-> r.addr]}]_vars

\* the transport operations of a session issued after its miwear_connect returned
OpsAfterReturn(c) == {ops[c][i] : i \in (conn[c].mark + 1) .. Len(ops[c])}

\* C6: when the probe succeeds and the handshake fails, miwear_connect returns
\* the handshake error, the session is not in the registry, the device is not
\* in the list of connected devices, and no read or write is issued on the
\* transport after the call returned.
C6_HandshakeFailureClosesTransport ==
  \A c \in Calls :
    (conn[c].pc = "err" /\ conn[c].ret.error = "handshake") =>
      /\ conn[c].ret.status = "err"
      /\ \A a \in Addrs : SESSIONS[a] # c /\ entities[a].sess # c
      /\ OpsAfterReturn(c) \cap {"read", "write"} = {}

\* the teardown steps of XiaomiSpp::disconnect
TeardownOps == {"writer.close", "reader.release", "port.close", "runtime.drop"}

\* C7: a miwear_connect call opens its transport only after every session it
\* found registered is torn down, and when it registers its new session the
\* registry holds exactly that session; other calls may overlap.
C7_ConnectLeavesOneSession ==
  [][\A c \in Calls :
       /\ (conn[c].pc # "probe" /\ conn'[c].pc = "probe") =>
            \A i \in 1 .. Len(conn'[c].drained) :
              LET s == conn'[c].drained[i].sess IN
                /\ spp'[s].owner = "dropped"
                /\ \A op \in TeardownOps : Count(ops'[s], op) = 1
       /\ (conn[c].pc = "handshake" /\ conn'[c].pc = "ok") =>
            {SESSIONS'[a] : a \in Addrs} \ {NoSession} = {c}]_vars

C9_ListEqualsRegistry ==
  listed.asked > 0 => listed.devices = listed.registered

\* the chunks the reads of a session returned, in order
DataReads(c) == SelectSeq(reads[c], LAMBDA r : r.kind = "data")

IsPrefix(p, q) == Len(p) <= Len(q) /\ \A i \in 1 .. Len(p) : p[i] = q[i]

\* C11: the buffers the outbound task of a session wrote to the transport are a
\* prefix of the buffers submitted through the write closure, in the order of
\* submission: none reordered, merged or written twice.
C11_WritesArePrefixOfSubmissions ==
  \A c \in Calls :
    /\ IsPrefix(chan[c].written, chan[c].submitted)
    /\ Count(ops[c], "write") = Len(chan[c].written)

\* two different buffers were written on a registered session and the write of
\* the second is pending
C11_Witness ==
  /\ Len(chan[1].written) = 2
  /\ chan[1].written[1] # chan[1].written[2]
  /\ chan[1].inflight # <<>>
  /\ conn[1].pc = "ok"

C13_NoCallbackDiscards ==
  (install.pc # "idle" /\ ~install.cb) =>
    /\ install.delivered = <<>>
    /\ install.fwd = "none"
    /\ install.rx = "dropped" => install.queue = <<>>
    /\ (install.sys = "running" /\ Len(install.emitted) < MaxEvents) => ENABLED ProducerEmit
    /\ (install.pc = "awaiting" /\ install.sys \in {"ok", "err"}) => ENABLED InstallReturn
    /\ (install.pc \in {"ok", "err"} /\ install.sys # "none") =>
         /\ install.pc = install.sys
         /\ install.ret = IF install.sys = "ok" THEN "Ok" ELSE "install failed"

\* an install without callback returned Ok after the install system emitted
\* every event, some before and some after the receiver was dropped
C13_Witness ==
  /\ ~install.cb
  /\ install.pc = "ok"
  /\ install.early >= 1
  /\ install.early < MaxEvents
  /\ Len(install.emitted) = MaxEvents

\* C14: with a progress callback, when miwear_install has returned its terminal
\* result every emitted progress event had been delivered before, and none is
\* delivered after.
C14_ProgressBeforeResult ==
  (install.cb /\ install.pc \in {"ok", "err"} /\ install.sys # "none") =>
    /\ install.mark = Len(install.emitted)
    /\ Len(install.delivered) = install.mark

\* a miwear_install or accessor call that found no device leaves the registry,
\* the device set, the notifications and the progress pipeline alone
NotFoundFrame ==
  /\ SESSIONS' = SESSIONS
  /\ entities' = entities
  /\ events' = events
  /\ install'.fwd = install.fwd
  /\ install'.delivered = install.delivered
  /\ install'.emitted = install.emitted

\* a miwear_install call is made for an address without device
InstallNoDevice ==
  install.pc = "idle" /\ install'.pc # "idle" /\ entities[install'.addr] = NoDevice

\* a subsystem accessor is called for an address without device
AccessNoDevice ==
  access'.asked > access.asked /\ entities[access'.addr] = NoDevice

\* C17 as stated: every subsystem call and every miwear_install for an address
\* without device fails with "Device not found", and changes nothing else.
C17_NotFoundAsStated ==
  [][/\ InstallNoDevice =>
          install'.pc = "err" /\ install'.ret = "Device not found" /\ NotFoundFrame
     /\ AccessNoDevice => access'.ret = "Device not found" /\ NotFoundFrame]_vars

\* C17: a subsystem accessor for an address without device fails with "Device
\* not found"; miwear_install for such an address fails with "Device not
\* found" when the resource type is valid and with the conversion error when
\* it is not. Registry, device set and notifications are unchanged, no
\* progress event is delivered and no forwarding task is started.
C17_NotFoundFrame ==
  [][/\ InstallNoDevice =>
          /\ install'.pc = "err"
          /\ install'.ret = IF install'.res = "valid" THEN "Device not found"
                            ELSE "invalid resource type"
          /\ install'.fwd = "none"
          /\ NotFoundFrame
     /\ AccessNoDevice => access'.ret = "Device not found" /\ NotFoundFrame
     /\ install.ret = "Device not found" => install'.fwd = "none" /\ install'.delivered = <<>>]_vars

\* miwear_install with a callback and an accessor both failed with "Device not
\* found" for the address of a session that was registered and disconnected;
\* the notifications are the two of that session
C17_Witness ==
  /\ install.pc = "err" /\ install.ret = "Device not found" /\ install.cb
  /\ access.asked = 1 /\ access.ret = "Device not found"
  /\ install.addr = spp[1].addr /\ access.addr = spp[1].addr
  /\ disc[1].pc = "done" /\ disc[1].removed = 1
  /\ Len(events) = 2

\* C15: every notification goes to the sink registered last at the time it is
\* emitted and to no other, a notification emitted with no sink registered is
\* dropped, and a registration replaces the sink by one of the callbacks
\* registered; what was emitted before is not delivered again.
C15_OneActiveSink ==
  [][/\ Len(events') >= Len(events)
     /\ \A i \in 1 .. Len(events') :
          IF i <= Len(events) THEN events'[i] = events[i]
          ELSE events'[i].sink = EVENT_SINK /\ EVENT_SINK' = EVENT_SINK
     /\ EVENT_SINK' # EVENT_SINK => EVENT_SINK' \in Sinks /\ events' = events]_vars

\* a connect completed with its notification dropped for want of a sink, then
\* the first sink received a notification, then the second one
C15_Witness ==
  /\ conn[1].pc = "ok"
  /\ Len(events) = 3
  /\ events[1].event = "device-connected" /\ events[1].sink = NoSink
  /\ events[2].sink = 1
  /\ events[3].sink = 2
  /\ EVENT_SINK = 2

\* C16: ensure_bluetooth_pairing never returns an error: whatever step fails,
\* it returns nothing or the (name, id) pair of the device.
C16_PairingNeverFails ==
  pair.pc = "done" => pair.ret \in {"Ok(None)", "Ok(Some)"}

\* a session that was registered and is gone: its XiaomiSpp was dropped, by the
\* end of disconnect() or without it
LeftRegistry(c) == conn[c].pc = "ok" /\ spp[c].owner = "dropped"

\* C18: every session that left the registry, by miwear_disconnect, by the
\* teardown of miwear_connect, by the handling of a remote stream end or by a
\* later registration under its address, had its writer closed once, its
\* reader released (by the teardown, at most once, or by its inbound task) and
\* its port closed once.
C18_TeardownExactlyOnce ==
  \A c \in Calls :
    LeftRegistry(c)
    => /\ Count(ops[c], "writer.close") = 1
       /\ Count(ops[c], "reader.release") <= 1
       /\ Count(ops[c], "reader.release") + Count(ops[c], "inbound.release") >= 1
       /\ Count(ops[c], "port.close") = 1

\* C19: when the transport of a session reported end-of-stream or a read error,
\* at whatever moment of the session's life (the handshake included), then
\* once the handle_remote_disconnect task it spawned has run and the
\* miwear_connect call has returned Ok, the session is neither in the registry
\* nor in the device set the list is read from, with no disconnect call made.
C19_StreamEndLeavesRegistry ==
  \A c \in Calls :
    (/\ StreamEnd(c) # "none"
     /\ hrd[c] = "done"
     /\ conn[c].pc = "ok"
     /\ \A d \in DCalls : disc[d].pc = "idle")
    => /\ SESSIONS[spp[c].addr] # c
       /\ entities[spp[c].addr].sess # c

\* the steps of XiaomiSpp::disconnect, in the order of the code
TeardownSteps == <<"writer.close", "reader.release", "port.close", "runtime.drop">>

\* the teardown steps issued on a session so far, in order
TeardownLog(s) == SelectSeq(ops[s], LAMBDA op : op \in TeardownOps)

\* the drained sessions whose teardown a miwear_connect call has finished
TornDownBy(c) ==
  {conn[c].drained[i] : i \in {j \in 1 .. Len(conn[c].drained) :
                                 j < conn[c].cur \/ conn[c].pc \notin {"td_writer", "td_port"}}}

\* the notifications the teardown of a miwear_connect call emitted for an address
EmittedByConnect(c, addr) ==
  {i \in EventIdx : /\ events[i].by = <<"connect", c>>
                    /\ events[i].event = "device-disconnected"
                    /\ events[i].addr = addr}

\* C20: a teardown started by miwear_disconnect or by the teardown of
\* miwear_connect issues writer close, reader release, port close and the drop
\* of the runtime in this order, each once and whatever the earlier steps
\* answered, emits nothing before the last of them, and then emits
\* "device-disconnected" with the name and address of the session. No other
\* call overlaps the one that tears down, and the reads of the session end, if
\* at all, on the reader the teardown released.
C20_TeardownOrderAndPayload ==
  /\ \A d \in DCalls :
       LET s == disc[d].removed IN
         (/\ s # NoSession
          /\ StreamEnd(s) \in {"none", "released"}
          /\ ~disc[d].ovc /\ ~disc[d].ovd)
         => /\ IsPrefix(TeardownLog(s), TeardownSteps)
            /\ disc[d].pc # "done" => EmittedBy(d) = {}
            /\ disc[d].pc = "done" =>
                 /\ TeardownLog(s) = TeardownSteps
                 /\ \E i \in EmittedBy(d) :
                      /\ events[i].event = "device-disconnected"
                      /\ events[i].name = spp[s].name
                      /\ events[i].addr = spp[s].addr
  /\ \A c \in Calls :
       \A x \in TornDownBy(c) :
         (/\ StreamEnd(x.sess) \in {"none", "released"}
          /\ ~conn[c].ovc /\ ~conn[c].ovd)
         => /\ TeardownLog(x.sess) = TeardownSteps
            /\ \E i \in EmittedByConnect(c, x.addr) : events[i].name = spp[x.sess].name

\* C21: the inbound task of a session calls disconnect_cb once: in the turn in
\* which its read reports done or is rejected, which is its last turn, and in
\* no turn whose read returned a chunk or a result without value. The task it
\* spawns is not spawned again.
C21_RemoteTriggerOnce ==
  /\ [](\A c \in Calls :
          /\ (hrd[c] = "none") <=> (inbound[c] # "ended")
          /\ \A i \in 1 .. Len(reads[c]) :
               reads[c][i].kind \in {"done", "err"} <=> (i = Len(reads[c]) /\ inbound[c] = "ended"))
  /\ [][\A c \in Calls :
          /\ hrd[c] # "none" => hrd'[c] # "spawned" \/ hrd'[c] = hrd[c]
          /\ (hrd[c] = "none" /\ hrd'[c] # "none")
             => /\ hrd'[c] = "spawned"
                /\ inbound[c] = "reading" /\ inbound'[c] = "ended"
                /\ Len(reads'[c]) = Len(reads[c]) + 1]_vars

\* the inbound task read chunks and results without value, then its read ended
\* and the trigger was called
C21_Witness ==
  /\ inbound[1] = "ended" /\ hrd[1] # "none"
  /\ \E i, j \in 1 .. Len(reads[1]) : reads[1][i].kind = "data" /\ reads[1][j].kind = "undefined"

\* C22: the step in which a write of the outbound task is rejected ends the
\* task and changes neither the registry nor the device set, emits nothing and
\* spawns no handle_remote_disconnect; the ended task issues no further write;
\* and a step that takes a session out of the registry is no step of an
\* outbound task.
C22_WriteFailureEndsTaskOnly ==
  [][\A c \in Calls :
       /\ (outbound[c] = "writing" /\ outbound'[c] = "ended")
          => /\ SESSIONS' = SESSIONS /\ entities' = entities
             /\ events' = events /\ hrd' = hrd /\ ops' = ops
       /\ outbound[c] = "ended"
          => outbound'[c] = "ended" /\ Count(ops'[c], "write") = Count(ops[c], "write")
       /\ (spp[c].addr \in Addrs /\ SESSIONS[spp[c].addr] = c /\ SESSIONS'[spp[c].addr] # c)
          => outbound' = outbound /\ chan' = chan]_vars

\* a write of a registered session was rejected: the task has ended with a
\* later buffer submitted and not written, the session is registered and
\* nothing was notified
C22_Witness ==
  /\ conn[1].pc = "ok" /\ SESSIONS[spp[1].addr] = 1
  /\ outbound[1] = "ended" /\ hrd[1] = "none"
  /\ chan[1].written # <<>>
  /\ Len(chan[1].submitted) > Len(chan[1].written)
  /\ \A i \in 1 .. Len(events) : events[i].event # "device-disconnected"

\* the writer close, reader release and port close issued on a session so far
ReleaseLog(s) ==
  SelectSeq(ops[s], LAMBDA op : op \in {"writer.close", "reader.release", "port.close"})

\* C23: a miwear_connect call that returned the handshake error has closed the
\* writer, released the reader and closed the port of its session, each once
\* and in this order.
C23_HandshakeFailureReleasesInOrder ==
  \A c \in Calls :
    (conn[c].pc = "err" /\ conn[c].ret.error = "handshake")
    => ReleaseLog(c) = <<"writer.close", "reader.release", "port.close">>

\* the teardown of a session is complete: the miwear_disconnect call that
\* removed it has returned, or its stream ended while it was registered and
\* the handle_remote_disconnect task has run
TeardownComplete(c) ==
  \/ \E d \in DCalls : disc[d].removed = c /\ disc[d].pc = "done"
  \/ StreamEnd(c) = "registered" /\ hrd[c] = "done"

\* C24: once the teardown of a session is complete, its inbound task and its
\* outbound task both end.
C24_PumpTasksTerminate ==
  \A c \in Calls : TeardownComplete(c) ~> (inbound[c] = "ended" /\ outbound[c] = "ended")

\* a miwear_disconnect has returned while the inbound task waits in its read
\* and the outbound task still has a submitted buffer to write
C24_Witness ==
  /\ disc[1].removed = 1 /\ disc[1].pc = "done"
  /\ inbound[1] = "reading"
  /\ outbound[1] # "ended" /\ chan[1].queue # <<>>

C26_ConnectErrorRegistersNothing ==
  \A c \in Calls :
    conn[c].pc = "err"
    => /\ \A a \in Addrs : SESSIONS[a] # c
       /\ \A i \in 1 .. Len(events) :
            ~(events[i].event = "device-connected" /\ events[i].by = <<"connect", c>>)

\* the handshake of a miwear_connect call failed: the failure branch of start
\* runs or the call has returned the handshake error
HandshakeFailed(c) ==
  \/ conn[c].pc = "fail_close"
  \/ conn[c].pc = "err" /\ conn[c].ret.error = "handshake"

\* C27: a miwear_connect call whose handshake failed, and whose stream did not
\* end before the failure branch released the reader, has its disconnect_cb
\* never called and no "device-disconnected" emitted for it.
C27_HandshakeFailureNotifiesNothing ==
  \A c \in Calls :
    (HandshakeFailed(c) /\ StreamEnd(c) \in {"none", "released"})
    => /\ hrd[c] = "none"
       /\ \A i \in 1 .. Len(events) :
            ~(events[i].event = "device-disconnected" /\ events[i].by = <<"remote", c>>)

\* C28: the write closure answers Ok for every buffer, one answer a buffer; it
\* can be called whenever the dispatcher holds it, whatever the state of the
\* outbound task; and the queue of an ended outbound task stays empty: what is
\* submitted to it is dropped.
C28_WriteClosureAlwaysOk ==
  \A c \in Calls :
    /\ Len(chan[c].answers) = Len(chan[c].submitted)
    /\ \A i \in 1 .. Len(chan[c].answers) : chan[c].answers[i].ret = "Ok"
    /\ (ClosureAlive(c) /\ Len(chan[c].submitted) < MaxSend)
       => ENABLED (\E data \in Chunks : DispatcherSend(c, data))
    /\ outbound[c] = "ended" => chan[c].queue = <<>>

\* a buffer was submitted after the outbound task had ended on a rejected
\* write, and the closure answered Ok
C28_Witness ==
  /\ outbound[1] = "ended"
  /\ \E i \in 1 .. Len(chan[1].answers) : chan[1].answers[i].closed /\ chan[1].answers[i].ret = "Ok"
  /\ Len(chan[1].submitted) > Len(chan[1].written)

====
